---- MODULE Spec2Model ----
(***************************************************************************)
(* Model of the stock indicator tool: the crossover detector               *)
(* (get_200d_50d_crossover), the RSI calculators (get_rsi, calculate_rsi), *)
(* the MACD calculators (get_macd_signal, calculate_macd), the three       *)
(* per-ticker orchestration loops and update_excel.                        *)
(*                                                                         *)
(* Floating point values are modelled as records: k = "num" with the exact *)
(* rational n/d (d > 0), or k = "nan", "inf".  Python's None is k = "none".*)
(* Prices are integers (a price in cents), so that rolling means are exact *)
(* rationals; rounding error of the float arithmetic is not modelled.      *)
(***************************************************************************)
EXTENDS Integers, Sequences, FiniteSets, TLC

VARIABLES
    df,         \* crossover: outcome of yf.download(period="1y")
    crossOut,   \* crossover: value returned by get_200d_50d_crossover
    hist,       \* rsi: outcome of the 6 month price download
    rsiOut,     \* rsi: value returned by get_rsi
    rsiLocal,   \* rsi: the rsi local of fetch_stock_data_with_indicators
    rsiCell,    \* rsi: the "RSI (14)" cell of the fetch_data row
    loop,       \* batch: which orchestration loop runs
    tickers,    \* batch: the requested tickers
    pos,        \* batch: number of tickers already processed
    results,    \* batch: the rows appended so far
    outcomes,   \* batch: history of what happened to each processed ticker
    macdOut,    \* macd: value returned by get_macd_signal
    macdRet,    \* macd: the three series returned by calculate_macd
    macdCells,  \* macd: the "MACD" and "Signal Line" cells of the fetch_data row
    xl          \* update_excel: its position, its environment and what it did

vars == <<df, crossOut, hist, rsiOut, rsiLocal, rsiCell, loop, tickers, pos, results, outcomes,
          macdOut, macdRet, macdCells, xl>>
macdVars == <<macdOut, macdRet, macdCells>>
batchVars == <<loop, tickers, pos, results, outcomes>>
rsiVars == <<hist, rsiOut, rsiLocal, rsiCell>>
crossVars == <<df, crossOut>>

-----------------------------------------------------------------------------
(* Values *)

None == [k |-> "none", n |-> 0, d |-> 1]
NaN == [k |-> "nan", n |-> 0, d |-> 1]
Inf == [k |-> "inf", n |-> 0, d |-> 1]
NotRun == [k |-> "notrun", n |-> 0, d |-> 1]
Raised == [k |-> "raised", n |-> 0, d |-> 1]

Num(a, b) == [k |-> "num", n |-> a, d |-> b]

\* the MACD calculators have not been called
IdleMacd == macdOut = NotRun /\ macdRet = NotRun /\ macdCells = NotRun

\* update_excel has not been called
IdleExcel == xl = NotRun
Label(s) == [k |-> s, n |-> 0, d |-> 1]

GoldenCross == Label("Golden Cross")
DeathCross == Label("Death Cross")
NoCross == Label("No Cross")

\* pd.notna on a scalar
notna(x) == x.k # "nan" /\ x.k # "none"

\* float comparisons: any comparison with NaN is False
Lt(a, b) == a.k = "num" /\ b.k = "num" /\ a.n * b.d < b.n * a.d
Le(a, b) == a.k = "num" /\ b.k = "num" /\ a.n * b.d <= b.n * a.d
Gt(a, b) == Lt(b, a)
Ge(a, b) == Le(b, a)
NumEq(a, x) == a.k = "num" /\ a.n = x * a.d

-----------------------------------------------------------------------------
(* Series helpers *)

RECURSIVE SumRange(_, _, _)
SumRange(s, lo, hi) ==
    IF lo > hi THEN 0
    ELSE IF lo = hi THEN s[lo]
    ELSE LET mid == (lo + hi) \div 2
         IN  SumRange(s, lo, mid) + SumRange(s, mid + 1, hi)

\* a rolling mean over the observations at hand (min_periods=1)
RollingMeanPartial(s, w, t) ==
    IF t < 1 \/ t > Len(s) THEN NaN
    ELSE IF t < w THEN Num(SumRange(s, 1, t), t)
    ELSE Num(SumRange(s, t - w + 1, t), w)

\* Series.rolling(window=w).mean() at 1-based position t of an integer series:
\* NaN until w observations are available.
RollingMean(s, w, t) ==
    IF t < w \/ t > Len(s) THEN NaN ELSE Num(SumRange(s, t - w + 1, t), w)

\* Series.iloc[i] for a negative index i, on a series of length n: the 1-based
\* position n + 1 + i; raises IndexError when that is before the first element.
ILocPos(n, i) == n + 1 + i

-----------------------------------------------------------------------------
(* Crossover detector *)

W1 == 50
W2 == 200
ScanFrom == -5

ma50(close, t) == RollingMean(close, W1, t)
ma200(close, t) == RollingMean(close, W2, t)

\* The body of the for loop for one i: a label, or "continue".
Continue == Label("continue")

\* ScanDay with the previous-day comparisons made non-strict
ScanDayLoose(close, i) ==
    LET n == Len(close)
    IN  IF ILocPos(n, i - 1) < 1 THEN Continue
        ELSE LET prev_50 == ma50(close, ILocPos(n, i - 1))
                 prev_200 == ma200(close, ILocPos(n, i - 1))
                 curr_50 == ma50(close, ILocPos(n, i))
                 curr_200 == ma200(close, ILocPos(n, i))
             IN  IF notna(prev_50) /\ notna(prev_200) /\ notna(curr_50) /\ notna(curr_200)
                 THEN IF Le(prev_50, prev_200) /\ Ge(curr_50, curr_200) THEN GoldenCross
                      ELSE IF Ge(prev_50, prev_200) /\ Le(curr_50, curr_200) THEN DeathCross
                      ELSE Continue
                 ELSE Continue

ScanDay(close, i) ==
    LET n == Len(close)
    IN  IF ILocPos(n, i - 1) < 1 THEN Continue
        ELSE LET prev_50 == ma50(close, ILocPos(n, i - 1))
                 prev_200 == ma200(close, ILocPos(n, i - 1))
                 curr_50 == ma50(close, ILocPos(n, i))
                 curr_200 == ma200(close, ILocPos(n, i))
             IN  IF notna(prev_50) /\ notna(prev_200) /\ notna(curr_50) /\ notna(curr_200)
                 THEN IF Lt(prev_50, prev_200) /\ Ge(curr_50, curr_200) THEN GoldenCross
                      ELSE IF Gt(prev_50, prev_200) /\ Le(curr_50, curr_200) THEN DeathCross
                      ELSE Continue
                 ELSE Continue

\* ScanLoop going from the latest day back to the oldest
RECURSIVE ScanBackward(_, _)
ScanBackward(close, i) ==
    IF i >= 0 THEN NoCross
    ELSE LET r == ScanDay(close, -1 - (i - ScanFrom))
         IN  IF r # Continue THEN r ELSE ScanBackward(close, i + 1)

\* for i in range(-5, 0): the first i whose body returns ends the function
RECURSIVE ScanLoop(_, _)
ScanLoop(close, i) ==
    IF i >= 0 THEN NoCross
    ELSE LET r == ScanDay(close, i)
         IN  IF r # Continue THEN r ELSE ScanLoop(close, i + 1)

\* get_200d_50d_crossover refusing a series of exactly W2 points
crossoverOffByOne(d) ==
    IF d.k = "raised" THEN None
    ELSE IF Len(d.close) <= W2 THEN None
    ELSE ScanLoop(d.close, ScanFrom)

\* d is the outcome of yf.download: Raised, or [k |-> "ok", close |-> series]
get_200d_50d_crossover(d) ==
    IF d.k = "raised" THEN None
    ELSE IF Len(d.close) < W2 THEN None
    ELSE ScanLoop(d.close, ScanFrom)

-----------------------------------------------------------------------------
(* Inputs of the crossover detector: a flat history followed by a tail of   *)
(* freely chosen prices, so that the averages can cross in the last days.   *)

\* the positions the scan reads: the last 5 days and the day before them
TailLen == 1 - ScanFrom
MaxExtra == 6
BasePrice == 2
TailPrices == {BasePrice - 1, BasePrice, BasePrice + 1}

CrossLens == {0, 1, TailLen, W2 - 1} \cup (W2 .. W2 + MaxExtra)

Flat(n) == [j \in 1 .. n |-> BasePrice]

CrossSeries ==
    { Flat(n - TailLen) \o tail : n \in {m \in CrossLens : m >= TailLen},
                                  tail \in [1 .. TailLen -> TailPrices] }
    \cup { Flat(n) : n \in {m \in CrossLens : m < TailLen} }

Ok(s) == [k |-> "ok", close |-> s]
RaisedDf == [k |-> "raised", close |-> <<>>]

CrossDownloads == {RaisedDf} \cup { Ok(s) : s \in CrossSeries }

InitCross ==
    /\ df \in CrossDownloads
    /\ crossOut = NotRun
    /\ hist = RaisedDf /\ rsiOut = NotRun /\ rsiLocal = NotRun /\ rsiCell = NotRun
    /\ loop = "none" /\ tickers = <<>> /\ pos = 0 /\ results = <<>> /\ outcomes = <<>>
    /\ IdleMacd /\ IdleExcel

CallCrossover ==
    /\ crossOut = NotRun
    /\ crossOut' = get_200d_50d_crossover(df)
    /\ UNCHANGED <<df, rsiVars, batchVars, macdVars, xl>>

NextCross == CallCrossover

SpecCross == InitCross /\ [][NextCross]_vars

-----------------------------------------------------------------------------
(* Float arithmetic as numpy does it: no exception on a zero divisor *)

\* a division that gives NaN on any zero divisor
FDivNoInf(x, y) ==
    IF x.k = "nan" \/ y.k = "nan" THEN NaN
    ELSE IF y.n = 0 THEN NaN
    ELSE Num(x.n * y.d, x.d * y.n)

\* x / y for x, y >= 0
FDiv(x, y) ==
    IF x.k = "nan" \/ y.k = "nan" THEN NaN
    ELSE IF y.n = 0 THEN (IF x.n = 0 THEN NaN ELSE Inf)
    ELSE Num(x.n * y.d, x.d * y.n)

\* 100 - (100 / (1 + rs)) for rs >= 0
RsiOfRs(rs) ==
    IF rs.k = "nan" THEN NaN
    ELSE IF rs.k = "inf" THEN Num(100, 1)
    ELSE LET one_plus == Num(rs.d + rs.n, rs.d)
             quot == Num(100 * one_plus.d, one_plus.n)
         IN  Num(100 * quot.d - quot.n, quot.d)

\* round(x, 2) of a non-negative float, half to even
Round2(x) ==
    IF x.k # "num" THEN x
    ELSE LET q == (100 * x.n) \div x.d
             r == (100 * x.n) % x.d
             up == 2 * r > x.d \/ (2 * r = x.d /\ q % 2 = 1)
         IN  Num(IF up THEN q + 1 ELSE q, 100)

\* Python truthiness of None or a float: None and 0.0 are false, NaN is true
Truthy(x) == x.k # "none" /\ ~(x.k = "num" /\ x.n = 0)

-----------------------------------------------------------------------------
(* RSI calculators *)

Period == 14

\* close.diff(): NaN at the first position
diff(close, t) == IF t = 1 THEN NaN ELSE Num(close[t] - close[t - 1], 1)

\* delta.where(delta > 0, 0): the comparison is False on NaN, which gives 0
Gain(close) ==
    [t \in 1 .. Len(close) |->
        LET delta == diff(close, t) IN IF Gt(delta, Num(0, 1)) THEN delta.n ELSE 0]

\* the losses kept with their sign: delta.where(delta < 0, 0)
LossSigned(close) ==
    [t \in 1 .. Len(close) |->
        LET delta == diff(close, t) IN IF Lt(delta, Num(0, 1)) THEN delta.n ELSE 0]

\* -delta.where(delta < 0, 0)
Loss(close) ==
    [t \in 1 .. Len(close) |->
        LET delta == diff(close, t) IN IF Lt(delta, Num(0, 1)) THEN -delta.n ELSE 0]

\* calculate_rsi(close_prices).iloc[t]: the RSI series at 1-based position t
calculate_rsi(close, t) ==
    LET avg_gain == RollingMean(Gain(close), Period, t)
        avg_loss == RollingMean(Loss(close), Period, t)
        rs == FDiv(avg_gain, avg_loss)
    IN  RsiOfRs(rs)

\* get_rsi(ticker); d is the outcome of yf.download(period="6mo")
get_rsi(d) ==
    IF d.k = "raised" THEN None
    ELSE LET close == d.close
             last == Len(close)
             gain == RollingMean(Gain(close), Period, last)
             loss == RollingMean(Loss(close), Period, last)
             rs == FDiv(gain, loss)
             rsi == RsiOfRs(rs)
         IN  IF last = 0 THEN None    \* rsi.values[-1] raises IndexError
             ELSE rsi

NA == Label("N/A")
ErrorCell == Label("Error")

\* the rsi local of fetch_stock_data_with_indicators for history h (not raised)
FetchRsi(close) ==
    IF Len(close) # 0 /\ Len(close) > Period
    THEN calculate_rsi(close, Len(close))
    ELSE None

\* the "RSI (14)" cell: round(rsi, 2) if rsi else "N/A"
RsiCellOf(rsi) == IF Truthy(rsi) THEN Round2(rsi) ELSE NA

\* the "RSI (14)" cell of the row of a ticker whose history download is d
FetchRsiCell(d) ==
    IF d.k = "raised" THEN ErrorCell ELSE RsiCellOf(FetchRsi(d.close))

-----------------------------------------------------------------------------
(* Inputs of the RSI calculators: a ramp of constant step followed by a     *)
(* tail of freely chosen steps (step 0 gives a constant series).            *)

MaxRsiLen == 17
MaxStep == 2
RsiTail == 2
StartPrice == 60

Steps == -MaxStep .. MaxStep

RECURSIVE Walk(_, _)
Walk(start, deltas) ==
    IF deltas = <<>> THEN <<start>>
    ELSE LET front == Walk(start, SubSeq(deltas, 1, Len(deltas) - 1))
         IN  Append(front, front[Len(front)] + deltas[Len(deltas)])

RsiDeltas(n) ==
    IF n - 1 <= RsiTail THEN [1 .. n - 1 -> Steps]
    ELSE { [j \in 1 .. n - 1 - RsiTail |-> s] \o tail :
              s \in Steps, tail \in [1 .. RsiTail -> Steps] }

RsiSeries ==
    {<<>>} \cup UNION { { Walk(StartPrice, ds) : ds \in RsiDeltas(n) } : n \in 1 .. MaxRsiLen }

RsiDownloads == {RaisedDf} \cup { Ok(s) : s \in RsiSeries }

InitRsi ==
    /\ hist \in RsiDownloads
    /\ rsiOut = NotRun /\ rsiLocal = NotRun /\ rsiCell = NotRun
    /\ df = RaisedDf /\ crossOut = NotRun
    /\ loop = "none" /\ tickers = <<>> /\ pos = 0 /\ results = <<>> /\ outcomes = <<>>
    /\ IdleMacd /\ IdleExcel

CallGetRsi ==
    /\ rsiOut = NotRun
    /\ rsiOut' = get_rsi(hist)
    /\ UNCHANGED <<hist, rsiLocal, rsiCell, crossVars, batchVars, macdVars, xl>>

\* one ticker of fetch_stock_data_with_indicators: the rsi local and the cell
FetchRow ==
    /\ rsiCell = NotRun
    /\ rsiLocal' = IF hist.k = "raised" THEN Raised ELSE FetchRsi(hist.close)
    /\ rsiCell' = FetchRsiCell(hist)
    /\ UNCHANGED <<hist, rsiOut, crossVars, batchVars, macdVars, xl>>

NextRsi == CallGetRsi \/ FetchRow

SpecRsi == InitRsi /\ [][NextRsi]_vars

-----------------------------------------------------------------------------
(* Exact rational arithmetic, fractions kept in lowest terms *)

Abs(a) == IF a < 0 THEN -a ELSE a

RECURSIVE GCD(_, _)
GCD(a, b) == IF b = 0 THEN a ELSE GCD(b, a % b)

\* a / b for b # 0, in lowest terms with a positive denominator
Rat(a, b) ==
    LET g == GCD(Abs(a), Abs(b))
        s == IF b < 0 THEN -1 ELSE 1
    IN  Num(s * (a \div g), s * (b \div g))

RatAdd(x, y) ==
    LET l == (x.d \div GCD(x.d, y.d)) * y.d
    IN  Rat(x.n * (l \div x.d) + y.n * (l \div y.d), l)

RatNeg(x) == Num(-x.n, x.d)
RatSub(x, y) == RatAdd(x, RatNeg(y))

RatMul(x, y) ==
    LET g1 == GCD(Abs(x.n), y.d)
        g2 == GCD(Abs(y.n), x.d)
    IN  Rat((x.n \div g1) * (y.n \div g2), (x.d \div g2) * (y.d \div g1))

\* x / y for y > 0
RatDiv(x, y) == RatMul(x, Num(y.d, y.n))

-----------------------------------------------------------------------------
(* MACD calculators *)

short_window == 12
long_window == 26
signal_window == 9

\* Series.ewm(span=span, adjust=False).mean() started from 0 instead of vals[0]
RECURSIVE EwmZeroSeed(_, _)
EwmZeroSeed(vals, span) ==
    LET com == Rat(span - 1, 2)
        alpha == RatDiv(Num(1, 1), RatAdd(Num(1, 1), com))
        old_wt == RatSub(Num(1, 1), alpha)
        new_wt == alpha
        last == Len(vals)
    IN  IF last = 0 THEN <<>>
        ELSE LET front == EwmZeroSeed(SubSeq(vals, 1, last - 1), span)
                 weighted == IF last = 1 THEN Num(0, 1) ELSE front[last - 1]
                 cur == vals[last]
             IN  Append(front,
                        RatDiv(RatAdd(RatMul(old_wt, weighted), RatMul(new_wt, cur)),
                               RatAdd(old_wt, new_wt)))

\* Series.ewm(span=span, adjust=False).mean(): the weighted average is
\* seeded with vals[0]; every further value is folded in with weight alpha,
\* alpha = 1 / (1 + com), com = (span - 1) / 2.
RECURSIVE Ewm(_, _)
Ewm(vals, span) ==
    LET com == Rat(span - 1, 2)
        alpha == RatDiv(Num(1, 1), RatAdd(Num(1, 1), com))
        old_wt == RatSub(Num(1, 1), alpha)
        new_wt == alpha
        last == Len(vals)
    IN  IF last = 0 THEN <<>>
        ELSE IF last = 1 THEN <<vals[1]>>
        ELSE LET front == Ewm(SubSeq(vals, 1, last - 1), span)
                 weighted == front[last - 1]
                 cur == vals[last]
             IN  Append(front,
                        IF weighted # cur
                        THEN RatDiv(RatAdd(RatMul(old_wt, weighted), RatMul(new_wt, cur)),
                                    RatAdd(old_wt, new_wt))
                        ELSE weighted)

\* the closing prices as floats
Floats(close) == [t \in 1 .. Len(close) |-> Num(close[t], 1)]

\* elementwise a - b of two series of the same index
SeriesSub(a, b) == [t \in 1 .. Len(a) |-> RatSub(a[t], b[t])]

\* calculate_macd with the two EMAs subtracted the wrong way round
calculateMacdSwapped(close_prices) ==
    LET ema_short == Ewm(Floats(close_prices), short_window)
        ema_long == Ewm(Floats(close_prices), long_window)
        macd == SeriesSub(ema_long, ema_short)
        signal == Ewm(macd, signal_window)
        histogram == SeriesSub(macd, signal)
    IN  [k |-> "ok", macd |-> macd, signal |-> signal, histogram |-> histogram]

calculate_macd(close_prices) ==
    LET ema_short == Ewm(Floats(close_prices), short_window)
        ema_long == Ewm(Floats(close_prices), long_window)
        macd == SeriesSub(ema_short, ema_long)
        signal == Ewm(macd, signal_window)
        histogram == SeriesSub(macd, signal)
    IN  [k |-> "ok", macd |-> macd, signal |-> signal, histogram |-> histogram]

\* get_macd_signal(ticker); d is the outcome of yf.download(period="6mo")
get_macd_signal(d) ==
    IF d.k = "raised" THEN None
    ELSE LET exp1 == Ewm(Floats(d.close), short_window)
             exp2 == Ewm(Floats(d.close), long_window)
             macd == SeriesSub(exp1, exp2)
             signal == Ewm(macd, signal_window)
         IN  IF Len(signal) = 0 THEN None    \* signal.values[-1] raises IndexError
             ELSE Round2(signal[Len(signal)])

\* the "MACD" and "Signal Line" cells of fetch_stock_data_with_indicators
\* for a history that did not raise
FetchMacdCells(close) ==
    LET valid == Len(close) # 0 /\ Len(close) > Period
        ret == calculate_macd(close)
        macd_value == IF valid THEN ret.macd[Len(close)] ELSE None
        signal_value == IF valid THEN ret.signal[Len(close)] ELSE None
    IN  [k |-> "ok",
         MACD |-> IF macd_value # None THEN Round2(macd_value) ELSE NA,
         Signal |-> IF signal_value # None THEN Round2(signal_value) ELSE NA]

-----------------------------------------------------------------------------
(* Inputs of the MACD calculators: a flat history followed by at most two   *)
(* freely chosen prices.  Each free price multiplies the denominators of    *)
(* the signal line by 13 * 27 * 5, and a third one leaves the integers of   *)
(* the model checker.                                                       *)

MaxPrefix == 13
MaxPrice == 3

MacdPrices == 1 .. MaxPrice
MacdTails == {<<>>} \cup [1 .. 1 -> MacdPrices] \cup [1 .. 2 -> MacdPrices]

MacdSeries ==
    {<<>>} \cup { [j \in 1 .. n |-> c] \o tail :
                     n \in 1 .. MaxPrefix, c \in MacdPrices, tail \in MacdTails }

MacdDownloads == {RaisedDf} \cup { Ok(s) : s \in MacdSeries }

\* the three calculators of one ticker, their downloads giving the same series
InitMacd ==
    /\ hist \in MacdDownloads
    /\ df = hist
    /\ IdleMacd /\ IdleExcel
    /\ crossOut = NotRun
    /\ rsiOut = NotRun /\ rsiLocal = NotRun /\ rsiCell = NotRun
    /\ loop = "none" /\ tickers = <<>> /\ pos = 0 /\ results = <<>> /\ outcomes = <<>>

CallGetMacdSignal ==
    /\ macdOut = NotRun
    /\ macdOut' = get_macd_signal(hist)
    /\ UNCHANGED <<macdRet, macdCells, crossVars, rsiVars, batchVars, xl>>

\* calculate_macd as fetch_stock_data_with_indicators calls it, and the cells
CallCalculateMacd ==
    /\ macdRet = NotRun
    /\ hist.k = "ok"
    /\ macdRet' = calculate_macd(hist.close)
    /\ macdCells' = FetchMacdCells(hist.close)
    /\ UNCHANGED <<macdOut, crossVars, rsiVars, batchVars, xl>>

NextMacd == CallGetMacdSignal \/ CallCalculateMacd \/ CallGetRsi \/ CallCrossover

SpecMacd == InitMacd /\ [][NextMacd]_vars

-----------------------------------------------------------------------------
(* Orchestration loops *)

MaxTickers == 3
TickerNames == {"AAPL", "MSFT"}
ScriptTickers == <<"AAPL", "MSFT", "GOOGL">>

Ramp(n, s) == Walk(StartPrice, [j \in 1 .. n - 1 |-> s])

\* what the price download of one ticker can give inside a loop
BatchHists == {RaisedDf, Ok(<<>>), Ok(Ramp(Period + 1, 1)), Ok(Ramp(Period + 1, -1))}

\* a row put in front of the others
PrependRow(rows, row) == <<row>> \o rows

\* all_data.append(data) / results.append(data) / stock_data.append(data)
AppendRow(rows, row) == Append(rows, row)

\* the keys of data whose value is not None: a ticker symbol never is
NotNoneValues(data) == {"Ticker"} \cup (IF data.rsi # None THEN {"rsi"} ELSE {})

Row(src, ticker, flag, rsi) == [src |-> src, Ticker |-> ticker, flag |-> flag, rsi |-> rsi]

InitBatch ==
    /\ loop \in {"fetch_data", "app", "script"}
    /\ tickers \in IF loop = "script" THEN {ScriptTickers}
                   ELSE UNION { [1 .. n -> TickerNames] : n \in 0 .. MaxTickers }
    /\ pos = 0 /\ results = <<>> /\ outcomes = <<>>
    /\ df = RaisedDf /\ crossOut = NotRun
    /\ hist = RaisedDf /\ rsiOut = NotRun /\ rsiLocal = NotRun /\ rsiCell = NotRun
    /\ IdleMacd /\ IdleExcel

\* one iteration of the loop of fetch_stock_data_with_indicators:
\* stock.info or stock.history raises, or the row is built
FetchDataIteration ==
    /\ loop = "fetch_data" /\ pos < Len(tickers)
    /\ \E infoRaises \in BOOLEAN, h \in BatchHists :
         LET ticker == tickers[pos + 1]
             raised == infoRaises \/ h.k = "raised"
         IN  /\ results' =
                    IF raised
                    THEN AppendRow(results, Row(pos + 1, ticker, "Error", ErrorCell))
                    ELSE AppendRow(results, Row(pos + 1, ticker, "ok", RsiCellOf(FetchRsi(h.close))))
             /\ outcomes' = Append(outcomes, IF raised THEN "raise" ELSE "ok")
    /\ pos' = pos + 1
    /\ UNCHANGED <<loop, tickers, crossVars, rsiVars, macdVars, xl>>

\* one iteration of the Analyze Stocks loop of app.py: an exception only
\* gives st.warning, no row
AppIteration ==
    /\ loop = "app" /\ pos < Len(tickers)
    /\ \E infoRaises \in BOOLEAN, h \in BatchHists :
         LET ticker == tickers[pos + 1]
         IN  /\ results' =
                    IF infoRaises THEN results
                    ELSE AppendRow(results, Row(pos + 1, ticker, "ok", get_rsi(h)))
             /\ outcomes' = Append(outcomes, IF infoRaises THEN "raise" ELSE "ok")
    /\ pos' = pos + 1
    /\ UNCHANGED <<loop, tickers, crossVars, rsiVars, macdVars, xl>>

\* one iteration of the loop of test.py: an exception is only printed; a row
\* is appended when one of its values is not None, which 'Ticker' always is
ScriptIteration ==
    /\ loop = "script" /\ pos < Len(tickers)
    /\ \E infoRaises \in BOOLEAN, h \in BatchHists :
         LET ticker == tickers[pos + 1]
             data == Row(pos + 1, ticker, "ok", get_rsi(h))
         IN  /\ results' =
                    IF infoRaises THEN results
                    ELSE IF NotNoneValues(data) # {}
                         THEN AppendRow(results, data)
                         ELSE results
             /\ outcomes' = Append(outcomes, IF infoRaises THEN "raise" ELSE "ok")
    /\ pos' = pos + 1
    /\ UNCHANGED <<loop, tickers, crossVars, rsiVars, macdVars, xl>>

NextBatch == FetchDataIteration \/ AppIteration \/ ScriptIteration

SpecBatch == InitBatch /\ [][NextBatch]_vars

-----------------------------------------------------------------------------
(* update_excel *)

\* the steps of update_excel that may end it, in program order
StepOrderClearFirst ==
    <<"file", "app", "workbook", "sheet", "clear", "tickers", "fetch", "write", "format">>

StepOrder ==
    <<"file", "app", "workbook", "sheet", "tickers", "fetch", "clear", "write", "format">>

StepIndex(p) == CHOOSE i \in 1 .. Len(StepOrder) : StepOrder[i] = p
NextPc(p) == IF StepIndex(p) = Len(StepOrder) THEN "done" ELSE StepOrder[StepIndex(p) + 1]

FallbackTickers == <<"AAPL", "MSFT", "GOOGL", "TSLA", "AMZN">>

\* what get_tickers_from_excel can return: the first column of Sheet1, or
\* the fallback list when the file cannot be read
SheetTickers ==
    {FallbackTickers} \cup UNION { [1 .. n -> TickerNames] : n \in 0 .. MaxTickers }

InitExcel ==
    /\ \E fileExists \in BOOLEAN, excelActive \in BOOLEAN, wbOpen \in BOOLEAN,
          hasRawData \in BOOLEAN :
          xl = [k |-> "run", pc |-> StepOrder[1], ret |-> "running",
                fileExists |-> fileExists, excelActive |-> excelActive,
                wbOpen |-> wbOpen, hasRawData |-> hasRawData,
                tickers |-> <<>>, rows |-> 0, sheet |-> "old", log |-> <<>>]
    /\ IdleMacd
    /\ df = RaisedDf /\ crossOut = NotRun
    /\ hist = RaisedDf /\ rsiOut = NotRun /\ rsiLocal = NotRun /\ rsiCell = NotRun
    /\ loop = "none" /\ tickers = <<>> /\ pos = 0 /\ results = <<>> /\ outcomes = <<>>

notExcel == <<crossVars, rsiVars, batchVars, macdVars>>

\* the step went through: on to the next one
Pass(x, event) == [x EXCEPT !.pc = NextPc(x.pc), !.log = Append(x.log, event)]

\* return False, from an early return or from the except clause
ReturnFalse(x) == [x EXCEPT !.pc = "done", !.ret = "False"]

\* if not os.path.exists(excel_path): return False
XlCheckFile ==
    /\ xl # NotRun /\ xl.pc = "file"
    /\ xl' = IF xl.fileExists THEN Pass(xl, "file") ELSE ReturnFalse(xl)
    /\ UNCHANGED notExcel

\* app = xw.apps.active; if app is None: return False
XlGetApp ==
    /\ xl # NotRun /\ xl.pc = "app"
    /\ xl' = IF xl.excelActive THEN Pass(xl, "app") ELSE ReturnFalse(xl)
    /\ UNCHANGED notExcel

\* look for the open workbook, open it when it is not: app.books.open may raise
XlFindWorkbook ==
    /\ xl # NotRun /\ xl.pc = "workbook"
    /\ \E opens \in BOOLEAN :
          xl' = IF xl.wbOpen \/ opens
                THEN Pass([xl EXCEPT !.wbOpen = TRUE], "workbook")
                ELSE ReturnFalse(xl)
    /\ UNCHANGED notExcel

\* sheet = workbook.sheets["RawData"]: raises when there is no such sheet
XlGetSheet ==
    /\ xl # NotRun /\ xl.pc = "sheet"
    /\ xl' = IF xl.hasRawData THEN Pass(xl, "sheet") ELSE ReturnFalse(xl)
    /\ UNCHANGED notExcel

\* tickers = get_tickers_from_excel(sheet_name="Sheet1")
XlReadTickers ==
    /\ xl # NotRun /\ xl.pc = "tickers"
    /\ \E ts \in SheetTickers : xl' = Pass([xl EXCEPT !.tickers = ts], "tickers")
    /\ UNCHANGED notExcel

\* df = fetch_stock_data_with_indicators(tickers): one row per ticker
XlFetch ==
    /\ xl # NotRun /\ xl.pc = "fetch"
    /\ xl' = Pass([xl EXCEPT !.rows = Len(xl.tickers)], "fetch")
    /\ UNCHANGED notExcel

\* sheet.clear(): a COM call, which may raise
XlClear ==
    /\ xl # NotRun /\ xl.pc = "clear"
    /\ \E ok \in BOOLEAN :
          xl' = IF ok THEN Pass([xl EXCEPT !.sheet = "cleared"], "clear") ELSE ReturnFalse(xl)
    /\ UNCHANGED notExcel

\* sheet.range("A1").value = df
XlWrite ==
    /\ xl # NotRun /\ xl.pc = "write"
    /\ \E ok \in BOOLEAN :
          xl' = IF ok THEN Pass([xl EXCEPT !.sheet = "written"], "write") ELSE ReturnFalse(xl)
    /\ UNCHANGED notExcel

\* format_excel(sheet), then return True; a failure leaves the sheet partly formatted
XlFormat ==
    /\ xl # NotRun /\ xl.pc = "format"
    /\ \E ok \in BOOLEAN :
          xl' = IF ok
                THEN [Pass([xl EXCEPT !.sheet = "formatted"], "format") EXCEPT !.ret = "True"]
                ELSE ReturnFalse([xl EXCEPT !.sheet = "partly formatted"])
    /\ UNCHANGED notExcel

NextExcel ==
    \/ XlCheckFile \/ XlGetApp \/ XlFindWorkbook \/ XlGetSheet \/ XlReadTickers
    \/ XlFetch \/ XlClear \/ XlWrite \/ XlFormat

SpecExcel == InitExcel /\ [][NextExcel]_vars

-----------------------------------------------------------------------------
(* Properties of the crossover detector *)

CrossDone == crossOut # NotRun
LongOk == df.k = "ok" /\ Len(df.close) >= W2
Days == ScanFrom .. -1
DayPos(i) == Len(df.close) + 1 + i

\* Sign of MA50 - MA200 at position t, when both are defined
Diff(t) ==
    W2 * SumRange(df.close, t - W1 + 1, t) - W1 * SumRange(df.close, t - W2 + 1, t)

\* both averages are defined on day i and on the day before
DefinedDay(i) == DayPos(i) - 1 >= W2

\* the day's verdict from the averages: "golden", "death", "none", or
\* "equal" when the two averages were equal the day before and now differ
Verdict(i) ==
    IF ~DefinedDay(i) THEN "none"
    ELSE LET before == Diff(DayPos(i) - 1)
             now == Diff(DayPos(i))
         IN  IF before < 0 /\ now >= 0 THEN "golden"
             ELSE IF before > 0 /\ now <= 0 THEN "death"
             ELSE IF before = 0 /\ now # 0 THEN "equal"
             ELSE "none"

Verdicts == [i \in Days |-> Verdict(i)]
QualifyingIn(v) == {i \in Days : v[i] \in {"golden", "death"}}
LabelOf(s) == IF s = "golden" THEN GoldenCross ELSE DeathCross
Latest(S) == CHOOSE i \in S : \A j \in S : j <= i
Oldest(S) == CHOOSE i \in S : \A j \in S : i <= j

\* C3 (as stated): with more than one qualifying transition in the last 5
\* days of a series of at least 200 points, the label of the most recent
\* qualifying transition is returned.
C3_MostRecentWins ==
    (CrossDone /\ LongOk) =>
        LET v == Verdicts
            Q == QualifyingIn(v)
        IN  Cardinality(Q) > 1 => crossOut = LabelOf(v[Latest(Q)])

\* C3 (amended): with more than one qualifying transition in the last 5 days
\* of a series of at least 200 points, the label of the oldest qualifying
\* transition is returned: the scan runs forward from the 5th-last day.
C3_OldestWins ==
    (CrossDone /\ LongOk) =>
        LET v == Verdicts
            Q == QualifyingIn(v)
        IN  Cardinality(Q) > 1 => crossOut = LabelOf(v[Oldest(Q)])

C3_Witness ==
    /\ CrossDone /\ LongOk
    /\ LET v == Verdicts
           Q == QualifyingIn(v)
       IN  /\ Cardinality(Q) > 1
           /\ v[Oldest(Q)] # v[Latest(Q)]
           /\ crossOut = LabelOf(v[Oldest(Q)])

\* C4: a series of fewer than 200 points (also an empty one) yields None and
\* none of the three labels; a downloaded series of 200 or more points yields
\* one of the three labels.
C4_LengthContract ==
    (CrossDone /\ df.k = "ok")
        => /\ Len(df.close) < W2 => crossOut = None
           /\ Len(df.close) >= W2 => crossOut \in {GoldenCross, DeathCross, NoCross}

C4_Witness ==
    /\ CrossDone /\ df.k = "ok" /\ Len(df.close) = W2
    /\ crossOut = NoCross

\* C5: on a series of at least 200 points, Golden Cross is returned only if a
\* day of the last 5 has MA50 < MA200 the day before and MA50 >= MA200 on the
\* day, Death Cross only if a day has MA50 > MA200 the day before and
\* MA50 <= MA200 on the day, and No Cross exactly when no day does either.
C5_CrossConditions ==
    (CrossDone /\ LongOk) =>
        LET v == Verdicts
        IN  /\ crossOut = GoldenCross => \E i \in Days : v[i] = "golden"
            /\ crossOut = DeathCross => \E i \in Days : v[i] = "death"
            /\ crossOut = NoCross <=> QualifyingIn(v) = {}

\* a day whose previous-day averages are equal and whose averages then differ
C5_Witness ==
    /\ CrossDone /\ LongOk /\ crossOut = NoCross
    /\ \E i \in Days : Verdict(i) = "equal"

\* C6: a day for which MA50 or MA200 is undefined on the day or the day
\* before never yields Golden Cross or Death Cross, and the scan goes on to
\* the remaining days: the label comes from a day with all four averages
\* defined, and such a qualifying day is found behind undefined ones.
C6_UndefinedSkipped ==
    (CrossDone /\ LongOk /\ \E i \in Days : ~DefinedDay(i)) =>
        LET v == Verdicts
        IN  /\ crossOut \in {GoldenCross, DeathCross}
                 => \E i \in Days : DefinedDay(i) /\ crossOut = LabelOf(v[i])
                                    /\ v[i] \in {"golden", "death"}
            /\ (\A i \in Days : ~DefinedDay(i)) => crossOut = NoCross
            /\ QualifyingIn(v) # {} => crossOut \in {GoldenCross, DeathCross}

C6_Witness ==
    /\ CrossDone /\ LongOk /\ Len(df.close) = W2 + 1
    /\ crossOut = GoldenCross

-----------------------------------------------------------------------------
(* Properties of the orchestration loops *)

BatchDone == loop # "none" /\ pos = Len(tickers)

\* C1: whatever the failures, the finished batch has exactly one row per
\* requested ticker, in each of the three loops: an 'Error' row for a ticker
\* whose processing failed, a row of values for one that succeeded.
C1_OneRowPerTicker ==
    BatchDone =>
        /\ Len(results) = Len(tickers)
        /\ \A i \in 1 .. Len(tickers) :
              /\ results[i].Ticker = tickers[i]
              /\ results[i].flag = (IF outcomes[i] = "raise" THEN "Error" ELSE "ok")

\* C2: the rows are in the relative order of their tickers in the input list
C2_InputOrder ==
    \A a, b \in 1 .. Len(results) : a < b => results[a].src < results[b].src

\* rows on both sides of a failed ticker, in a loop that drops it
C2_Witness ==
    /\ BatchDone /\ Len(tickers) = 3 /\ outcomes = <<"ok", "raise", "ok">>
    /\ Len(results) = 2

-----------------------------------------------------------------------------
(* Properties of the RSI calculators *)

HistOk == hist.k = "ok"
StrictlyIncreasing(s) == \A t \in 2 .. Len(s) : s[t] > s[t - 1]
StrictlyDecreasing(s) == \A t \in 2 .. Len(s) : s[t] < s[t - 1]
Constant(s) == \A t \in 2 .. Len(s) : s[t] = s[t - 1]

\* C7: a series of fewer than 15 points gives Unknown, never a number or
\* NaN, from get_rsi and in fetch_stock_data_with_indicators.
C7_ShortIsUnknown ==
    (HistOk /\ Len(hist.close) < Period + 1)
        => /\ rsiOut # NotRun => rsiOut = None
           /\ rsiCell # NotRun => rsiLocal = None /\ rsiCell = NA

\* C8: a constant series (here one long enough for the 14-day averages to
\* exist, both being 0) gives Unknown, and the RSI output is not NaN.
C8_NeverNaN ==
    (HistOk /\ Len(hist.close) >= Period + 1)
        => /\ rsiOut # NaN /\ rsiLocal # NaN /\ rsiCell # NaN
           /\ Constant(hist.close)
                => /\ rsiOut # NotRun => rsiOut = None
                   /\ rsiCell # NotRun => rsiCell = NA

\* C9: a strictly increasing series of at least 15 points has RSI exactly 100
C9_IncreasingIs100 ==
    (HistOk /\ Len(hist.close) >= Period + 1 /\ StrictlyIncreasing(hist.close))
        => /\ rsiOut # NotRun => NumEq(rsiOut, 100)
           /\ rsiCell # NotRun => NumEq(rsiLocal, 100) /\ NumEq(rsiCell, 100)

C9_Witness ==
    /\ HistOk /\ Len(hist.close) >= Period + 1 /\ StrictlyIncreasing(hist.close)
    /\ \E t \in 3 .. Len(hist.close) :
          hist.close[t] - hist.close[t - 1] # hist.close[t - 1] - hist.close[t - 2]
    /\ NumEq(rsiOut, 100) /\ NumEq(rsiCell, 100)

\* C10: a strictly decreasing series of at least 15 points has RSI exactly 0,
\* and 0 is what reaches the result record.
C10_DecreasingIs0 ==
    (HistOk /\ Len(hist.close) >= Period + 1 /\ StrictlyDecreasing(hist.close))
        => /\ rsiOut # NotRun => NumEq(rsiOut, 0)
           /\ rsiCell # NotRun => NumEq(rsiLocal, 0) /\ NumEq(rsiCell, 0)

\* a number of the closed interval [0, 100]
InRange(v) ==
    \/ v.d > 0 /\ 0 <= v.n /\ v.n <= 100 * v.d
    \/ v.d < 0 /\ 0 >= v.n /\ v.n >= 100 * v.d
Defined(v) == v.k \notin {"none", "nan", "notrun", "raised"}

\* C11: whenever an RSI calculator returns a defined value, for any input
\* series, the value is a number between 0 and 100, both included.
C11_RsiInRange ==
    /\ Defined(rsiOut) => rsiOut.k = "num" /\ InRange(rsiOut)
    /\ Defined(rsiLocal) => rsiLocal.k = "num" /\ InRange(rsiLocal)

\* both calculators give a value strictly inside the interval
C11_Witness ==
    /\ rsiOut.k = "num" /\ rsiOut.n # 0 /\ ~NumEq(rsiOut, 100)
    /\ rsiLocal.k = "num" /\ rsiLocal.n # 0 /\ ~NumEq(rsiLocal, 100)

\* C15: in a row that is not an Error row, the "RSI (14)" cell is 'N/A'
\* exactly when the history has at most 14 points, and with more than 14
\* points it is the latest RSI rounded to 2 decimals, whatever its value.
C15_CellIffShort ==
    (HistOk /\ rsiCell # NotRun)
        => /\ rsiCell = NA <=> Len(hist.close) <= Period
           /\ Len(hist.close) > Period
                => rsiCell = Round2(calculate_rsi(hist.close, Len(hist.close)))

-----------------------------------------------------------------------------
(* Properties of the MACD calculators *)

Zero(x) == x.k = "num" /\ x.n = 0

\* C12: for a price series of 0 or 1 points each of the three calculators
\* returns None: no number and no NaN.
C12_EdgeIsUnknown ==
    (HistOk /\ Len(hist.close) <= 1)
        => /\ rsiOut \in {NotRun, None}
           /\ macdOut \in {NotRun, None}
           /\ crossOut \in {NotRun, None}

\* C13: for a constant series (of at least one price) the MACD line and the
\* Signal line are 0 at every index, and the latest values reported are 0.
C13_ConstantIsZero ==
    (HistOk /\ Len(hist.close) >= 1 /\ Constant(hist.close))
        => /\ macdOut # NotRun => Zero(macdOut)
           /\ macdRet # NotRun
                => /\ \A t \in 1 .. Len(hist.close) :
                         Zero(macdRet.macd[t]) /\ Zero(macdRet.signal[t])
                   /\ Len(hist.close) > Period
                         => Zero(macdCells.MACD) /\ Zero(macdCells.Signal)

C13_Witness ==
    /\ HistOk /\ Len(hist.close) > Period /\ Constant(hist.close)
    /\ Zero(macdOut)
    /\ macdRet # NotRun /\ Zero(macdRet.signal[Len(hist.close)])
    /\ Zero(macdCells.MACD)

\* the reference recursion, as the series of its first t values:
\* EMA[1] = x[1], EMA[t] = a*x[t] + (1-a)*EMA[t-1]
RECURSIVE RefEma(_, _, _)
RefEma(x, a, t) ==
    IF t = 0 THEN <<>>
    ELSE IF t = 1 THEN <<x[1]>>
    ELSE LET prev == RefEma(x, a, t - 1)
         IN  Append(prev, RatAdd(RatMul(a, x[t]),
                                 RatMul(RatSub(Num(1, 1), a), prev[t - 1])))

\* (SubSeq makes each series a tuple whose elements are computed once)
RefMacd(close) ==
    LET n == Len(close)
        x == SubSeq(Floats(close), 1, n)
        fast == RefEma(x, Num(2, 13), n)
        slow == RefEma(x, Num(2, 27), n)
    IN  SubSeq([t \in 1 .. n |-> RatSub(fast[t], slow[t])], 1, n)

RefSignal(close) == RefEma(RefMacd(close), Num(2, 10), Len(close))

\* C14: calculate_macd agrees at every index with the reference recursion
\* (spans 12 and 26 for the MACD line, span 9 seeded by MACD[0] for the
\* Signal line, histogram = MACD - Signal), and the three series have the
\* length of the input.
C14_MatchesReference ==
    (HistOk /\ macdRet # NotRun) =>
        LET n == Len(hist.close)
            m == RefMacd(hist.close)
            s == RefSignal(hist.close)
        IN  /\ Len(macdRet.macd) = n /\ Len(macdRet.signal) = n /\ Len(macdRet.histogram) = n
            /\ \A t \in 1 .. n :
                  /\ macdRet.macd[t] = m[t]
                  /\ macdRet.signal[t] = s[t]
                  /\ macdRet.histogram[t] = RatSub(m[t], s[t])

\* three indices of recursion with moving prices
C14_Witness ==
    /\ HistOk /\ macdRet # NotRun
    /\ LET n == Len(hist.close)
       IN  /\ n >= 3
           /\ hist.close[n] # hist.close[n - 1] /\ hist.close[n - 1] # hist.close[n - 2]
           /\ ~Zero(macdRet.macd[n]) /\ ~Zero(macdRet.histogram[n])

-----------------------------------------------------------------------------
(* Properties of update_excel *)

Logged(e) == \E i \in 1 .. Len(xl.log) : xl.log[i] = e
\* every occurrence of b in the log has an a before it
Before(a, b) ==
    \A j \in 1 .. Len(xl.log) : xl.log[j] = b => \E i \in 1 .. j - 1 : xl.log[i] = a

\* C16: the RawData sheet is cleared only after the tickers were read and
\* the data fetched, written only after being cleared, formatted only after
\* being written; True is returned only if clear, write and format all
\* completed; without dashboard.xlsm or without an active Excel, False is
\* returned and the sheet is neither cleared nor written.
C16_UpdateExcelOrder ==
    xl # NotRun =>
        /\ Before("tickers", "clear") /\ Before("fetch", "clear")
        /\ Before("clear", "write") /\ Before("write", "format")
        /\ xl.sheet # "old" => Logged("clear")
        /\ xl.ret = "True" => Logged("clear") /\ Logged("write") /\ Logged("format")
        /\ (~xl.fileExists \/ ~xl.excelActive)
              => /\ ~Logged("clear") /\ ~Logged("write") /\ xl.sheet = "old"
                 /\ xl.ret # "True"
                 /\ xl.pc = "done" => xl.ret = "False"

C16_Witness ==
    /\ xl # NotRun /\ xl.pc = "done" /\ xl.ret = "True"
    /\ xl.sheet = "formatted" /\ xl.rows = 2

====
